---- MODULE Spec2Model ----
(***************************************************************************)
(* Model of the USBDO96 driver class (src/usbdo96.py): the address         *)
(* translation, the two-byte command encoding, the per-group cache         *)
(* current_values, the dos_enabled flag, the serial port's open state and  *)
(* the card itself (ports B, C, D and the six 16-bit group latches, as the *)
(* module docstring describes them).                                       *)
(***************************************************************************)
EXTENDS Integers, Sequences, FiniteSets, TLC

VARIABLES
  is_open,         \* self.serial.is_open
  dos_enabled,     \* self.dos_enabled
  current_values,  \* self.current_values, indexed by group 1..6 (list index group-1)
  reset_on_exit,   \* self.reset_on_exit
  alive,           \* FALSE once __del__ has run
  faulty,          \* whether serial.write can raise in this run
  portB,           \* card: last value written to Port B
  portC,           \* card: last value written to Port C
  portD,           \* card: last value written to Port D
  latched,         \* card: 16-bit value held by each group's data latch
  trace            \* the calls traced so far, each with its messages and outcome

vars == <<is_open, dos_enabled, current_values, reset_on_exit, alive, faulty,
          portB, portC, portD, latched, trace>>

----------------------------------------------------------------------------
(* Bounds of the model. *)

\* Largest number of channels passed in a call.
MaxDOs == 2

\* Program constants.
PORT_B == 1
PORT_C == 2
PORT_D == 3
CMD_READ == 0
CMD_CONFIGURE == 1
CMD_WRITE == 2
NumGroups == 6
NumDOs == 96

Groups == 1..NumGroups

\* Channels the calls of the model are made with: both ports of group 1,
\* group 2, and the last bit of the last group.
TestDOs == {3, 10, 23, 96}

----------------------------------------------------------------------------
(* Bit arithmetic on non-negative integers. *)

Pow2(n) == 2 ^ n

Bit(v, b) == (v \div Pow2(b)) % 2

\* Mutant of SetBit: v = 1 << b, which drops the other bits of the port.
SetBitAssigns(v, b) == Pow2(b)

\* v | (1 << b)
SetBit(v, b) == IF Bit(v, b) = 1 THEN v ELSE v + Pow2(b)

\* Mutant of ClearBit: v ^ (1 << b), which sets a bit that was clear.
ClearBitToggles(v, b) == IF Bit(v, b) = 1 THEN v - Pow2(b) ELSE v + Pow2(b)

\* v & (0xFF ^ (1 << b)) for v in 0..255, b in 0..7
ClearBit(v, b) == IF Bit(v, b) = 1 THEN v - Pow2(b) ELSE v

\* a | b
RECURSIVE BitOr(_, _)
BitOr(a, b) ==
  IF a = 0 THEN b
  ELSE IF b = 0 THEN a
  ELSE (IF a % 2 = 1 \/ b % 2 = 1 THEN 1 ELSE 0) + 2 * BitOr(a \div 2, b \div 2)

----------------------------------------------------------------------------
(* Address translation. *)

\* Mutant of _DOToGPB: the port taken from the channel and not from its
\* offset in the group.
DOToGPBPortOfDO(do) ==
  IF do <= 0 \/ do > 96
  THEN [ok |-> FALSE, group |-> 0, port |-> 0, bit |-> 0]
  ELSE LET d     == do - 1
           group == d \div 16
           port  == IF d \div 8 = 0 THEN 0 ELSE 1
           bit   == d % 8
       IN [ok |-> TRUE, group |-> group + 1,
           port |-> IF port # 0 THEN 3 ELSE 2, bit |-> bit]

\* _DOToGPB: ok is FALSE where the code raises USBDO96Exception.
DOToGPB(do) ==
  IF do <= 0 \/ do > 96
  THEN [ok |-> FALSE, group |-> 0, port |-> 0, bit |-> 0]
  ELSE LET d     == do - 1
           group == d \div 16
           port  == (d - 16 * group) \div 8
           bit   == d - 16 * group - 8 * port
       IN [ok |-> TRUE, group |-> group + 1,
           port |-> IF port # 0 THEN PORT_D ELSE PORT_C, bit |-> bit]

\* Mutant of _GPBToDO: the result left 0-based.
GPBToDOZeroBased(group, port, bit) ==
  IF group <= 0 \/ group > 6 THEN [ok |-> FALSE, do |-> 0]
  ELSE IF port # 2 /\ port # 3 THEN [ok |-> FALSE, do |-> 0]
  ELSE IF bit < 0 \/ bit > 8 THEN [ok |-> FALSE, do |-> 0]
  ELSE [ok |-> TRUE, do |-> 16 * (group - 1) + 8 * (IF port = 2 THEN 0 ELSE 1) + bit]

\* _GPBToDO: ok is FALSE where the code raises USBDO96Exception.
GPBToDO(group, port, bit) ==
  IF group <= 0 \/ group > 6 THEN [ok |-> FALSE, do |-> 0]
  ELSE IF port # PORT_C /\ port # PORT_D THEN [ok |-> FALSE, do |-> 0]
  ELSE IF bit < 0 \/ bit > 8 THEN [ok |-> FALSE, do |-> 0]
  ELSE LET g == group - 1
           p == IF port = PORT_C THEN 0 ELSE 1
       IN [ok |-> TRUE, do |-> 16 * g + 8 * p + bit + 1]

----------------------------------------------------------------------------
(* The card, as the module docstring describes it. *)

\* Mutant of CommandByte: Port D's Write derived like the other codes ('I').
CommandByteNaive(port, command) == 65 + (port - 1) * 3 + command

\* First byte of a message: chr(65 + (port - 1) * 3 + command), Port D's
\* Write being 'J' and not 'I'.
CommandByte(port, command) ==
  LET cmd == IF port = PORT_D /\ command = CMD_WRITE THEN command + 1 ELSE command
  IN 65 + (port - 1) * 3 + cmd

\* A write to Port B: a group whose bit goes from 0 to 1 takes the values
\* present on Ports C and D.
LatchOnB(m, value) ==
  [m EXCEPT !.latched = [g \in Groups |->
                           IF Bit(m.portB, g) = 0 /\ Bit(value, g) = 1
                           THEN m.portC + 256 * m.portD
                           ELSE m.latched[g]],
            !.portB = value]

\* The card's reaction to a two-byte message. Configure commands set the
\* direction of the bits and leave the values alone.
Card(m, byte0, value) ==
  IF byte0 = 67 THEN LatchOnB(m, value)
  ELSE IF byte0 = 70 THEN [m EXCEPT !.portC = value]
  ELSE IF byte0 = 74 THEN [m EXCEPT !.portD = value]
  ELSE m

\* Level of Digital Output do on the connector: group 1 is DO01-DO16, C0 its
\* first DO and D7 its last; B0 = 0 forces every DO to 0 while the latches
\* keep their values.
Output(pB, l, do) ==
  IF Bit(pB, 0) = 0 THEN 0
  ELSE Bit(l[((do - 1) \div 16) + 1], (do - 1) % 16)

----------------------------------------------------------------------------
(* The driver's statements. A statement leaves the machine alone once an   *)
(* exception is under way (m.exc # "none"): the call is unwinding.         *)

\* The object and the card, as one record the statements work on.
\* failAfter: messages the serial port still accepts before serial.write
\* raises (-1: it never does).
Machine(failAfter) ==
  [is_open |-> is_open, dos_enabled |-> dos_enabled,
   current_values |-> current_values,
   portB |-> portB, portC |-> portC, portD |-> portD, latched |-> latched,
   wire |-> <<>>, exc |-> "none", failAfter |-> failAfter]

\* Mutant of WriteByte: no check that the serial port is open.
WriteByteNoOpenCheck(m, port, command, value) ==
  IF m.exc # "none" THEN m
  ELSE IF m.failAfter = 0 THEN [m EXCEPT !.exc = "io"]
  ELSE LET byte0 == CommandByte(port, command)
           sent  == [m EXCEPT !.wire = Append(@, <<byte0, value>>),
                              !.failAfter = IF @ > 0 THEN @ - 1 ELSE @]
       IN Card(sent, byte0, value)

\* _WriteByte: the message is sent for the three commands alike; the byte a
\* Read returns is ReadByte below.
WriteByte(m, port, command, value) ==
  IF m.exc # "none" THEN m
  ELSE IF ~m.is_open THEN [m EXCEPT !.exc = "closed"]
  ELSE IF m.failAfter = 0 THEN [m EXCEPT !.exc = "io"]
  ELSE LET byte0 == CommandByte(port, command)
           sent  == [m EXCEPT !.wire = Append(@, <<byte0, value>>),
                              !.failAfter = IF @ > 0 THEN @ - 1 ELSE @]
       IN Card(sent, byte0, value)

\* int(self.serial.read(1).encode('hex'), 16) after a Read: the value of the
\* port, as the module docstring describes the command.
ReadByte(m, port) ==
  IF port = PORT_B THEN m.portB ELSE IF port = PORT_C THEN m.portC ELSE m.portD

\* self.dos_enabled = b
SetEnabled(m, b) ==
  IF m.exc # "none" THEN m ELSE [m EXCEPT !.dos_enabled = b]

\* self.current_values = [v] * 6
SetAllValues(m, v) ==
  IF m.exc # "none" THEN m ELSE [m EXCEPT !.current_values = [g \in Groups |-> v]]

\* self.current_values[group-1] = v
SetValue(m, group, v) ==
  IF m.exc # "none" THEN m ELSE [m EXCEPT !.current_values[group] = v]

\* self.serial.open() / self.serial.close()
SetOpen(m, b) ==
  IF m.exc # "none" THEN m ELSE [m EXCEPT !.is_open = b]

\* Mutant of enableDOs: the flag is not set.
enableDOsNoFlag(m) == WriteByte(m, PORT_B, CMD_WRITE, 1)

enableDOs(m) == SetEnabled(WriteByte(m, PORT_B, CMD_WRITE, 1), TRUE)

disableDOs(m) == SetEnabled(WriteByte(m, PORT_B, CMD_WRITE, 0), FALSE)

\* Mutant of PortBValue: 0x01 whatever dos_enabled is.
PortBValueAlwaysOne(m) == 1

\* port_b_value = self.dos_enabled and 0x01 or 0x00
PortBValue(m) == IF m.dos_enabled THEN 1 ELSE 0

\* Mutant of resetDOs: Port B is not written before the latch bits are set.
resetDOsTwoWrites(m) ==
  LET port_b_value == PortBValue(m)
      m1 == WriteByte(m, PORT_C, CMD_WRITE, 0)
      m2 == WriteByte(m1, PORT_D, CMD_WRITE, 0)
      m4 == WriteByte(m2, PORT_B, CMD_WRITE, BitOr(port_b_value, 126))
      m5 == WriteByte(m4, PORT_B, CMD_WRITE, port_b_value)
  IN SetAllValues(m5, 0)

resetDOs(m) ==
  LET port_b_value == PortBValue(m)
      m1 == WriteByte(m, PORT_C, CMD_WRITE, 0)
      m2 == WriteByte(m1, PORT_D, CMD_WRITE, 0)
      m3 == WriteByte(m2, PORT_B, CMD_WRITE, port_b_value)
      m4 == WriteByte(m3, PORT_B, CMD_WRITE, BitOr(port_b_value, 126))
      m5 == WriteByte(m4, PORT_B, CMD_WRITE, port_b_value)
  IN SetAllValues(m5, 0)

setAllDOs(m) ==
  LET port_b_value == PortBValue(m)
      m1 == WriteByte(m, PORT_C, CMD_WRITE, 255)
      m2 == WriteByte(m1, PORT_D, CMD_WRITE, 255)
      m3 == WriteByte(m2, PORT_B, CMD_WRITE, port_b_value)
      m4 == WriteByte(m3, PORT_B, CMD_WRITE, BitOr(port_b_value, 126))
      m5 == WriteByte(m4, PORT_B, CMD_WRITE, port_b_value)
  IN SetAllValues(m5, 65535)

\* Mutant of initSerial: 0xFF written to Port B to latch the groups, which
\* enables the DOs with the same write.
initSerialLatchFF(m) ==
  LET m0 == IF ~m.is_open THEN SetOpen(m, TRUE) ELSE m
      m1 == WriteByte(m0, PORT_B, CMD_CONFIGURE, 0)
      m2 == WriteByte(m1, PORT_C, CMD_CONFIGURE, 0)
      m3 == WriteByte(m2, PORT_D, CMD_CONFIGURE, 0)
      m4 == disableDOs(m3)
      m5 == WriteByte(m4, PORT_C, CMD_WRITE, 0)
      m6 == WriteByte(m5, PORT_D, CMD_WRITE, 0)
      m7 == WriteByte(m6, PORT_B, CMD_WRITE, 255)
      m8 == enableDOs(m7)
  IN SetAllValues(m8, 0)

\* Mutant of initSerial: current_values is not reset.
initSerialKeepsValues(m) ==
  LET m0 == IF ~m.is_open THEN SetOpen(m, TRUE) ELSE m
      m1 == WriteByte(m0, PORT_B, CMD_CONFIGURE, 0)
      m2 == WriteByte(m1, PORT_C, CMD_CONFIGURE, 0)
      m3 == WriteByte(m2, PORT_D, CMD_CONFIGURE, 0)
      m4 == disableDOs(m3)
      m5 == WriteByte(m4, PORT_C, CMD_WRITE, 0)
      m6 == WriteByte(m5, PORT_D, CMD_WRITE, 0)
      m7 == WriteByte(m6, PORT_B, CMD_WRITE, 126)
  IN enableDOs(m7)

initSerial(m) ==
  LET m0 == IF ~m.is_open THEN SetOpen(m, TRUE) ELSE m
      m1 == WriteByte(m0, PORT_B, CMD_CONFIGURE, 0)
      m2 == WriteByte(m1, PORT_C, CMD_CONFIGURE, 0)
      m3 == WriteByte(m2, PORT_D, CMD_CONFIGURE, 0)
      m4 == disableDOs(m3)
      m5 == WriteByte(m4, PORT_C, CMD_WRITE, 0)
      m6 == WriteByte(m5, PORT_D, CMD_WRITE, 0)
      m7 == WriteByte(m6, PORT_B, CMD_WRITE, 126)
      m8 == enableDOs(m7)
  IN SetAllValues(m8, 0)

\* Mutant of closeSerial: the DOs are reset and not disabled.
closeSerialNoDisable(m, reset_dos) ==
  IF ~m.is_open THEN m
  ELSE SetOpen(IF reset_dos THEN resetDOs(m) ELSE m, FALSE)

\* Mutant of closeSerial: no check that the port is open.
closeSerialNoGuard(m, reset_dos) ==
  SetOpen(IF reset_dos THEN disableDOs(resetDOs(m)) ELSE m, FALSE)

closeSerial(m, reset_dos) ==
  IF ~m.is_open THEN m
  ELSE SetOpen(IF reset_dos THEN disableDOs(resetDOs(m)) ELSE m, FALSE)

----------------------------------------------------------------------------
(* setDOs. An argument is None, an int or a collection of ints.            *)

NoneArg == [kind |-> "none", n |-> 0, s |-> {}]
IntArg(n) == [kind |-> "int", n |-> n, s |-> {}]
SetArg(s) == [kind |-> "set", n |-> 0, s |-> s]

\* dos = dos or set(); dos = type(dos) == int and set([dos]) or set(dos)
\* None, 0 and an empty collection are falsy and become the empty set.
ToSet(arg) ==
  IF arg.kind = "none" THEN {}
  ELSE IF arg.kind = "int" THEN (IF arg.n = 0 THEN {} ELSE {arg.n})
  ELSE arg.s

\* state = int(do in dos_on)
DOState(do, dos_on) == IF do \in dos_on THEN 1 ELSE 0

\* groups: for every group with a DO in dos_on.union(dos_off), its
\* (port, bit, state) tuples.
GroupsOf(dos_on, dos_off) ==
  LET all     == dos_on \cup dos_off
      touched == {DOToGPB(do).group : do \in all}
  IN [group \in touched |->
        {<<DOToGPB(do).port, DOToGPB(do).bit, DOState(do, dos_on)>> :
           do \in {x \in all : DOToGPB(x).group = group}}]

\* One (port, bit, state) tuple applied to the pair <<new_c_value, new_d_value>>;
\* <<-1, -1>> stands for the 'Invalid port' exception.
ApplyPBS(cd, pbs) ==
  IF cd[1] < 0 THEN cd
  ELSE IF pbs[1] = PORT_C
       THEN <<IF pbs[3] = 1 THEN SetBit(cd[1], pbs[2]) ELSE ClearBit(cd[1], pbs[2]), cd[2]>>
  ELSE IF pbs[1] = PORT_D
       THEN <<cd[1], IF pbs[3] = 1 THEN SetBit(cd[2], pbs[2]) ELSE ClearBit(cd[2], pbs[2])>>
  ELSE <<-1, -1>>

\* for port, bit, state in pbs: ...
RECURSIVE ApplyAll(_, _)
ApplyAll(cd, pbss) ==
  IF pbss = {} THEN cd
  ELSE LET pbs == CHOOSE x \in pbss : TRUE
       IN ApplyAll(ApplyPBS(cd, pbs), pbss \ {pbs})

\* Mutant of Changed: the group is written whether or not it changes.
ChangedAlways(new_c_value, new_d_value, current_c_value, current_d_value) == TRUE

\* if new_c_value != current_c_value or new_d_value != current_d_value
Changed(new_c_value, new_d_value, current_c_value, current_d_value) ==
  new_c_value # current_c_value \/ new_d_value # current_d_value

\* Mutant of LatchValue: port_b_value | group, the shift forgotten.
LatchValueNoShift(port_b_value, group) == BitOr(port_b_value, group)

\* The value written to Port B to latch a group: port_b_value | (1 << group)
LatchValue(port_b_value, group) == BitOr(port_b_value, Pow2(group))

\* Mutant of UpdateGroup: current_values is updated before the writes.
UpdateGroupCacheFirst(m, group, pbss, port_b_value) ==
  IF m.exc # "none" THEN m
  ELSE
    LET current_c_value == m.current_values[group] % 256
        current_d_value == (m.current_values[group] \div 256) % 256
        new == ApplyAll(<<current_c_value, current_d_value>>, pbss)
    IN IF new[1] < 0 THEN [m EXCEPT !.exc = "range"]
       ELSE IF Changed(new[1], new[2], current_c_value, current_d_value)
       THEN LET m0 == SetValue(m, group, BitOr(new[1], new[2] * 256))
                m1 == WriteByte(m0, PORT_C, CMD_WRITE, new[1])
                m2 == WriteByte(m1, PORT_D, CMD_WRITE, new[2])
            IN WriteByte(m2, PORT_B, CMD_WRITE, LatchValue(port_b_value, group))
       ELSE m

\* Mutant of UpdateGroup: the group's bit is set on Port B before Ports C
\* and D are written.
UpdateGroupLatchFirst(m, group, pbss, port_b_value) ==
  IF m.exc # "none" THEN m
  ELSE
    LET current_c_value == m.current_values[group] % 256
        current_d_value == (m.current_values[group] \div 256) % 256
        new == ApplyAll(<<current_c_value, current_d_value>>, pbss)
    IN IF new[1] < 0 THEN [m EXCEPT !.exc = "range"]
       ELSE IF Changed(new[1], new[2], current_c_value, current_d_value)
       THEN LET m1 == WriteByte(m, PORT_B, CMD_WRITE, LatchValue(port_b_value, group))
                m2 == WriteByte(m1, PORT_C, CMD_WRITE, new[1])
                m3 == WriteByte(m2, PORT_D, CMD_WRITE, new[2])
            IN SetValue(m3, group, BitOr(new[1], new[2] * 256))
       ELSE m

\* The body of the loop over groups.iteritems().
UpdateGroup(m, group, pbss, port_b_value) ==
  IF m.exc # "none" THEN m
  ELSE
    LET current_c_value == m.current_values[group] % 256
        current_d_value == (m.current_values[group] \div 256) % 256
        new == ApplyAll(<<current_c_value, current_d_value>>, pbss)
    IN IF new[1] < 0 THEN [m EXCEPT !.exc = "range"]
       ELSE IF Changed(new[1], new[2], current_c_value, current_d_value)
       THEN LET m1 == WriteByte(m, PORT_C, CMD_WRITE, new[1])
                m2 == WriteByte(m1, PORT_D, CMD_WRITE, new[2])
                m3 == WriteByte(m2, PORT_B, CMD_WRITE, LatchValue(port_b_value, group))
            IN SetValue(m3, group, BitOr(new[1], new[2] * 256))
       ELSE m

RECURSIVE UpdateGroups(_, _, _, _)
UpdateGroups(m, groups, port_b_value, order) ==
  IF order = <<>> THEN m
  ELSE UpdateGroups(UpdateGroup(m, Head(order), groups[Head(order)], port_b_value),
                    groups, port_b_value, Tail(order))

\* The orders in which a dict with the keys S can be iterated.
RECURSIVE Orders(_)
Orders(S) ==
  IF S = {} THEN {<<>>}
  ELSE UNION {{<<x>> \o o : o \in Orders(S \ {x})} : x \in S}

\* Mutant of setDOs: port_b_value is not written to Port B first.
setDOsNoBaseWrite(m, dos_on_arg, dos_off_arg, order) ==
  LET dos_on  == ToSet(dos_on_arg)
      dos_off == ToSet(dos_off_arg)
  IN IF \E do \in dos_on \cup dos_off : ~DOToGPB(do).ok
     THEN [m EXCEPT !.exc = "range"]
     ELSE UpdateGroups(m, GroupsOf(dos_on, dos_off), PortBValue(m), order)

\* setDOs; order is the order in which groups.iteritems() yields the groups.
setDOs(m, dos_on_arg, dos_off_arg, order) ==
  LET dos_on  == ToSet(dos_on_arg)
      dos_off == ToSet(dos_off_arg)
  IN IF \E do \in dos_on \cup dos_off : ~DOToGPB(do).ok
     THEN [m EXCEPT !.exc = "range"]
     ELSE LET port_b_value == PortBValue(m)
              m1 == WriteByte(m, PORT_B, CMD_WRITE, port_b_value)
          IN UpdateGroups(m1, GroupsOf(dos_on, dos_off), port_b_value, order)

\* The orders setDOs may take for these arguments.
OrdersFor(dos_on_arg, dos_off_arg) ==
  LET all == ToSet(dos_on_arg) \cup ToSet(dos_off_arg)
  IN Orders({DOToGPB(do).group : do \in {x \in all : DOToGPB(x).ok}})

turnOn(m, dos, order) == setDOs(m, dos, NoneArg, order)

turnOff(m, dos, order) == setDOs(m, NoneArg, dos, order)

----------------------------------------------------------------------------
(* Arguments the calls of the model are made with. *)

\* Collections of up to MaxDOs of the test channels.
DOSets == {s \in SUBSET TestDOs : Cardinality(s) <= MaxDOs}

\* Collections holding a channel outside 1..96.
BadDOSets == {{0}, {97}, {3, 97}}

\* dos of turnOn and turnOff: None, an int or a collection.
DOArgs ==
  {NoneArg} \cup {IntArg(n) : n \in {0, 3, 97}}
            \cup {SetArg(s) : s \in DOSets \cup BadDOSets}

\* dos_on and dos_off of setDOs: collections of up to MaxDOs channels in all,
\* one of them possibly holding a channel outside 1..96.
DOArgPairs ==
  {<<SetArg(p[1]), SetArg(p[2])>> :
     p \in {q \in DOSets \X DOSets : Cardinality(q[1]) + Cardinality(q[2]) <= MaxDOs}}
  \cup {<<SetArg(b), SetArg(s)>> : b \in BadDOSets, s \in {{}, {10}}}
  \cup {<<SetArg(s), SetArg(b)>> : b \in BadDOSets, s \in {{}, {10}}}

\* Arguments of the translations: every channel and some outside 1..96,
\* every (group, port, bit) and some outside the groups, ports and bits.
DOInputs == {<<do>> : do \in -1 .. 98}

GPBInputs == (0 .. 7) \X (1 .. 4) \X (-1 .. 9)

\* Arguments of _WriteByte: the three ports, the three commands, a value.
WriteByteInputs ==
  {PORT_B, PORT_C, PORT_D} \X {CMD_READ, CMD_CONFIGURE, CMD_WRITE} \X {0, 255}

\* Where serial.write may raise in a call that sends n messages when it does
\* not: never (-1), or after 0..n-1 messages went through. A run is followed
\* up to its first call in which serial.write raises, which is a traced one.
FailPoints(traced, n) == IF faulty /\ traced THEN -1 .. (n - 1) ELSE {-1}

----------------------------------------------------------------------------
(* Tracing. A run is any sequence of calls; from some call on the calls    *)
(* are traced, each with its arguments, its outcome, the messages it sent  *)
(* and the object's fields when it began. What is traced is one call made  *)
(* in any state the run reached, and the calls that follow it in the       *)
(* sequences below.                                                        *)

Before == [is_open |-> is_open, dos_enabled |-> dos_enabled,
           current_values |-> current_values]

Traced(name, arg, exc, msgs, ret) ==
  [name |-> name, arg |-> arg, exc |-> exc, wire |-> msgs, before |-> Before,
   ret |-> ret]

\* The arguments, among all, with which method name may be called now: any
\* while nothing is traced; after a traced call, those of the same call
\* again, of __del__ after __exit__, of turnOn after disableDOs and of
\* enableDOs after these two, those a translation returned for the
\* opposite translation, and any of _WriteByte after _WriteByte.
Allowed(name, all) ==
  IF trace = <<>> THEN all
  ELSE IF Len(trace) = 1 /\ trace[1].exc = "none"
  THEN IF trace[1].name = "_WriteByte" /\ name = "_WriteByte" THEN all
       ELSE IF trace[1].name = name THEN {trace[1].arg}
       ELSE IF trace[1].name = "__exit__" /\ name = "__del__" THEN all
       ELSE IF trace[1].name = "disableDOs" /\ name = "turnOn" THEN all
       ELSE IF trace[1].name = "_DOToGPB" /\ name = "_GPBToDO" THEN {trace[1].ret}
       ELSE IF trace[1].name = "_GPBToDO" /\ name = "_DOToGPB" THEN {trace[1].ret}
       ELSE {}
  ELSE IF /\ Len(trace) = 2
          /\ trace[1].name = "disableDOs"
          /\ trace[2].name = "turnOn"
          /\ trace[2].exc = "none"
          /\ name = "enableDOs"
  THEN all
  ELSE {}

\* Whether the next call is traced.
Tracing == IF trace = <<>> THEN BOOLEAN ELSE {TRUE}

Record(traced, name, arg, exc, msgs, ret) ==
  trace' = IF traced THEN Append(trace, Traced(name, arg, exc, msgs, ret)) ELSE <<>>

----------------------------------------------------------------------------
(* The state machine: one action per method. *)

\* The state a call that ran to m leaves behind.
Commit(mm, traced, name, arg) ==
  \E m \in {mm} :
    /\ is_open' = m.is_open
    /\ dos_enabled' = m.dos_enabled
    /\ current_values' = m.current_values
    /\ portB' = m.portB
    /\ portC' = m.portC
    /\ portD' = m.portD
    /\ latched' = m.latched
    /\ Record(traced, name, arg, m.exc, m.wire, <<>>)
    /\ UNCHANGED <<reset_on_exit, faulty>>

\* The card before the constructor runs holds anything.
PowerOn(junk) ==
  [is_open |-> TRUE, dos_enabled |-> FALSE,
   current_values |-> [g \in Groups |-> 0],
   portB |-> junk, portC |-> junk, portD |-> junk,
   latched |-> [g \in Groups |-> junk * 257],
   wire |-> <<>>, exc |-> "none", failAfter |-> -1]

\* __init__ sets the fields, opens the port and calls initSerial.
Constructed ==
  /\ reset_on_exit \in BOOLEAN
  /\ alive = TRUE
  /\ \E junk \in {0, 255} :
       LET m == initSerial(PowerOn(junk))
       IN /\ is_open = m.is_open
          /\ dos_enabled = m.dos_enabled
          /\ current_values = m.current_values
          /\ portB = m.portB
          /\ portC = m.portC
          /\ portD = m.portD
          /\ latched = m.latched
  /\ trace = <<>>

Init == Constructed /\ faulty = FALSE

InitSerial ==
  /\ alive
  /\ \E a \in Allowed("initSerial", {<<>>}) :
       LET m0 == initSerial(Machine(-1))
       IN \E traced \in Tracing :
            \E f \in FailPoints(traced, Len(m0.wire)) :
              Commit(IF f = -1 THEN m0 ELSE initSerial(Machine(f)),
                     traced, "initSerial", a)
  /\ UNCHANGED alive

CloseSerial ==
  /\ alive
  /\ \E a \in Allowed("closeSerial", {<<r>> : r \in BOOLEAN}) :
       LET m0 == closeSerial(Machine(-1), a[1])
       IN \E traced \in Tracing :
            \E f \in FailPoints(traced, Len(m0.wire)) :
              Commit(IF f = -1 THEN m0 ELSE closeSerial(Machine(f), a[1]),
                     traced, "closeSerial", a)
  /\ UNCHANGED alive

\* __exit__: leaving a with-statement.
Exit ==
  /\ alive
  /\ \E a \in Allowed("__exit__", {<<>>}) :
       LET m0 == closeSerial(Machine(-1), reset_on_exit)
       IN \E traced \in Tracing :
            \E f \in FailPoints(traced, Len(m0.wire)) :
              Commit(IF f = -1 THEN m0 ELSE closeSerial(Machine(f), reset_on_exit),
                     traced, "__exit__", a)
  /\ UNCHANGED alive

\* __del__: the instance is destroyed; nothing can be called afterwards.
Del ==
  /\ alive
  /\ \E a \in Allowed("__del__", {<<>>}) :
       LET m0 == closeSerial(Machine(-1), reset_on_exit)
       IN \E traced \in Tracing :
            \E f \in FailPoints(traced, Len(m0.wire)) :
              Commit(IF f = -1 THEN m0 ELSE closeSerial(Machine(f), reset_on_exit),
                     traced, "__del__", a)
  /\ alive' = FALSE

EnableDOs ==
  /\ alive
  /\ \E a \in Allowed("enableDOs", {<<>>}) :
       LET m0 == enableDOs(Machine(-1))
       IN \E traced \in Tracing :
            \E f \in FailPoints(traced, Len(m0.wire)) :
              Commit(IF f = -1 THEN m0 ELSE enableDOs(Machine(f)),
                     traced, "enableDOs", a)
  /\ UNCHANGED alive

DisableDOs ==
  /\ alive
  /\ \E a \in Allowed("disableDOs", {<<>>}) :
       LET m0 == disableDOs(Machine(-1))
       IN \E traced \in Tracing :
            \E f \in FailPoints(traced, Len(m0.wire)) :
              Commit(IF f = -1 THEN m0 ELSE disableDOs(Machine(f)),
                     traced, "disableDOs", a)
  /\ UNCHANGED alive

ResetDOs ==
  /\ alive
  /\ \E a \in Allowed("resetDOs", {<<>>}) :
       LET m0 == resetDOs(Machine(-1))
       IN \E traced \in Tracing :
            \E f \in FailPoints(traced, Len(m0.wire)) :
              Commit(IF f = -1 THEN m0 ELSE resetDOs(Machine(f)),
                     traced, "resetDOs", a)
  /\ UNCHANGED alive

SetAllDOs ==
  /\ alive
  /\ \E a \in Allowed("setAllDOs", {<<>>}) :
       LET m0 == setAllDOs(Machine(-1))
       IN \E traced \in Tracing :
            \E f \in FailPoints(traced, Len(m0.wire)) :
              Commit(IF f = -1 THEN m0 ELSE setAllDOs(Machine(f)),
                     traced, "setAllDOs", a)
  /\ UNCHANGED alive

SetDOs ==
  /\ alive
  /\ \E a \in Allowed("setDOs", DOArgPairs) :
       \E order \in OrdersFor(a[1], a[2]) :
         LET m0 == setDOs(Machine(-1), a[1], a[2], order)
         IN \E traced \in Tracing :
              \E f \in FailPoints(traced, Len(m0.wire)) :
                Commit(IF f = -1 THEN m0 ELSE setDOs(Machine(f), a[1], a[2], order),
                       traced, "setDOs", a)
  /\ UNCHANGED alive

TurnOn ==
  /\ alive
  /\ \E a \in Allowed("turnOn", {<<dos>> : dos \in DOArgs}) :
       \E order \in OrdersFor(a[1], NoneArg) :
         LET m0 == turnOn(Machine(-1), a[1], order)
         IN \E traced \in Tracing :
              \E f \in FailPoints(traced, Len(m0.wire)) :
                Commit(IF f = -1 THEN m0 ELSE turnOn(Machine(f), a[1], order),
                       traced, "turnOn", a)
  /\ UNCHANGED alive

TurnOff ==
  /\ alive
  /\ \E a \in Allowed("turnOff", {<<dos>> : dos \in DOArgs}) :
       \E order \in OrdersFor(NoneArg, a[1]) :
         LET m0 == turnOff(Machine(-1), a[1], order)
         IN \E traced \in Tracing :
              \E f \in FailPoints(traced, Len(m0.wire)) :
                Commit(IF f = -1 THEN m0 ELSE turnOff(Machine(f), a[1], order),
                       traced, "turnOff", a)
  /\ UNCHANGED alive

\* _DOToGPB and _GPBToDO touch neither the object nor the card.
DOToGPBCall ==
  /\ alive
  /\ \E a \in Allowed("_DOToGPB", DOInputs) :
       LET r == DOToGPB(a[1])
       IN \E traced \in Tracing :
            Record(traced, "_DOToGPB", a, IF r.ok THEN "none" ELSE "range", <<>>,
                   IF r.ok THEN <<r.group, r.port, r.bit>> ELSE <<>>)
  /\ UNCHANGED <<is_open, dos_enabled, current_values, reset_on_exit, alive,
                 faulty, portB, portC, portD, latched>>

GPBToDOCall ==
  /\ alive
  /\ \E a \in Allowed("_GPBToDO", GPBInputs) :
       LET r == GPBToDO(a[1], a[2], a[3])
       IN \E traced \in Tracing :
            Record(traced, "_GPBToDO", a, IF r.ok THEN "none" ELSE "range", <<>>,
                   IF r.ok THEN <<r.do>> ELSE <<>>)
  /\ UNCHANGED <<is_open, dos_enabled, current_values, reset_on_exit, alive,
                 faulty, portB, portC, portD, latched>>

\* _WriteByte called on its own, with any port, command and value.
WriteByteCall ==
  /\ alive
  /\ \E a \in Allowed("_WriteByte", WriteByteInputs) :
       LET m0 == WriteByte(Machine(-1), a[1], a[2], a[3])
       IN \E traced \in Tracing :
            \E f \in FailPoints(traced, Len(m0.wire)) :
              \E m \in {IF f = -1 THEN m0 ELSE WriteByte(Machine(f), a[1], a[2], a[3])} :
                /\ is_open' = m.is_open
                /\ dos_enabled' = m.dos_enabled
                /\ current_values' = m.current_values
                /\ portB' = m.portB
                /\ portC' = m.portC
                /\ portD' = m.portD
                /\ latched' = m.latched
                /\ Record(traced, "_WriteByte", a, m.exc, m.wire,
                          IF m.exc = "none" /\ a[2] = CMD_READ
                          THEN <<ReadByte(m, a[1])>> ELSE <<>>)
  /\ UNCHANGED <<reset_on_exit, faulty, alive>>

Next ==
  \/ InitSerial
  \/ CloseSerial
  \/ Exit
  \/ Del
  \/ EnableDOs
  \/ DisableDOs
  \/ ResetDOs
  \/ SetAllDOs
  \/ SetDOs
  \/ TurnOn
  \/ TurnOff

\* The driver on a serial link that does not fail.
Spec == Init /\ [][Next]_vars

NextAddr ==
  \/ DOToGPBCall
  \/ GPBToDOCall

\* The address translations alone.
SpecAddr == Init /\ [][NextAddr]_vars

NextWire == WriteByteCall

\* Messages sent one at a time.
SpecWire == Init /\ [][NextWire]_vars

InitIO == Constructed /\ faulty = TRUE

\* The driver on a serial link where serial.write may raise.
SpecIO == InitIO /\ [][Next]_vars

----------------------------------------------------------------------------
(* What the claims are stated with. *)

\* The last traced call.
Last == trace[Len(trace)]

Ok(r) == r.exc = "none"

IsSetCall(r) == r.name \in {"setDOs", "turnOn", "turnOff"}

IsClose(r) == r.name \in {"closeSerial", "__exit__", "__del__"}

\* The channels an argument names.
ChannelsOf(arg) ==
  IF arg.kind = "none" THEN {}
  ELSE IF arg.kind = "int" THEN {arg.n}
  ELSE arg.s

\* The channels a call asks to turn on, and to turn off.
OnSet(r) == IF r.name \in {"setDOs", "turnOn"} THEN ChannelsOf(r.arg[1]) ELSE {}

OffSet(r) ==
  IF r.name = "setDOs" THEN ChannelsOf(r.arg[2])
  ELSE IF r.name = "turnOff" THEN ChannelsOf(r.arg[1])
  ELSE {}

AllDOs == 1 .. NumDOs

\* The cached bit of channel c: bit (c-1) mod 16 of group floor((c-1)/16)+1.
ChannelBit(values, c) == Bit(values[((c - 1) \div 16) + 1], (c - 1) % 16)

\* The messages "Write v to Port B / C / D".
WrB(v) == <<67, v>>
WrC(v) == <<70, v>>
WrD(v) == <<74, v>>

\* base: 0x01 if enabled else 0x00
Base(enabled) == IF enabled THEN 1 ELSE 0

\* The group value the call r asks for, given the value the cache held.
RECURSIVE Target(_, _, _, _)
Target(r, group, old, i) ==
  IF i = 16 THEN 0
  ELSE LET c == 16 * (group - 1) + i + 1
           b == IF c \in OnSet(r) THEN 1
                ELSE IF c \in OffSet(r) THEN 0
                ELSE Bit(old, i)
       IN b * Pow2(i) + Target(r, group, old, i + 1)

TouchedGroups(r) == {((c - 1) \div 16) + 1 : c \in OnSet(r) \cup OffSet(r)}

ChangedGroups(r) ==
  {g \in TouchedGroups(r) : Target(r, g, r.before.current_values[g], 0)
                              # r.before.current_values[g]}

----------------------------------------------------------------------------
(* The claims. *)

\* C1: after a successful setDOs / turnOn / turnOff whose channels are all in
\* 1..96, the cached bit of every channel of dos_on is 1 and the cached bit of
\* every channel of dos_off that is not in dos_on is 0 (on wins), whatever
\* the cache held and whether or not the DOs are enabled.
C1_OnWins ==
  (trace # <<>> /\ IsSetCall(Last) /\ Ok(Last)
     /\ OnSet(Last) \cup OffSet(Last) \subseteq AllDOs)
  => /\ \A c \in OnSet(Last) : ChannelBit(current_values, c) = 1
     /\ \A c \in OffSet(Last) \ OnSet(Last) : ChannelBit(current_values, c) = 0

\* A setDOs with a channel in both collections that was off, made while the
\* DOs are disabled, leaves it on.
C1_Witness ==
  /\ trace # <<>>
  /\ Last.name = "setDOs" /\ Ok(Last)
  /\ OnSet(Last) = {3} /\ OffSet(Last) = {3}
  /\ ~Last.before.dos_enabled
  /\ ChannelBit(Last.before.current_values, 3) = 0
  /\ ChannelBit(Last.before.current_values, 10) = 1
  /\ ChannelBit(current_values, 3) = 1

\* C2: setDOs / turnOn / turnOff leave the cached bit of every channel they
\* are not given unchanged, in every group, and leave dos_enabled and the
\* port's open state unchanged.
C2_Frame ==
  (trace # <<>> /\ IsSetCall(Last))
  => /\ \A c \in AllDOs \ (OnSet(Last) \cup OffSet(Last)) :
          ChannelBit(current_values, c) = ChannelBit(Last.before.current_values, c)
     /\ dos_enabled = Last.before.dos_enabled
     /\ is_open = Last.before.is_open

\* A turnOn that rewrites a group where another channel is on.
C2_Witness ==
  /\ trace # <<>>
  /\ Last.name = "turnOn" /\ Ok(Last)
  /\ OnSet(Last) = {3}
  /\ ChannelBit(Last.before.current_values, 3) = 0
  /\ ChannelBit(Last.before.current_values, 10) = 1
  /\ ChannelBit(current_values, 10) = 1
  /\ Len(Last.wire) = 4

\* C3: a successful setDOs / turnOn / turnOff sends, after the base write to
\* Port B, three messages for each group whose value changes and none for a
\* touched group whose value stays as cached (no latch write carries that
\* group's bit, and no C or D write is left over); the same call made again
\* right away sends the base write alone and changes no cache entry.
C3_WriteElision ==
  /\ (trace # <<>> /\ IsSetCall(Last) /\ Ok(Last)
        /\ OnSet(Last) \cup OffSet(Last) \subseteq AllDOs)
     => /\ Len(Last.wire) = 1 + 3 * Cardinality(ChangedGroups(Last))
        /\ \A g \in TouchedGroups(Last) \ ChangedGroups(Last) :
             \A i \in 2 .. Len(Last.wire) :
               ~(Last.wire[i][1] = 67 /\ Bit(Last.wire[i][2], g) = 1)
  /\ (Len(trace) = 2 /\ IsSetCall(trace[1]) /\ Ok(trace[1])
        /\ trace[2].name = trace[1].name /\ trace[2].arg = trace[1].arg)
     => /\ Ok(trace[2])
        /\ trace[2].wire = <<WrB(Base(dos_enabled))>>
        /\ current_values = trace[2].before.current_values

\* A setDOs that changed two groups, made again: the second sends one message.
C3_Witness ==
  /\ Len(trace) = 2
  /\ trace[1].name = "setDOs" /\ trace[2].name = "setDOs"
  /\ trace[2].arg = trace[1].arg
  /\ Len(trace[1].wire) = 7
  /\ Len(trace[2].wire) = 1

\* C4: resetDOs (v = 0x00) and setAllDOs (v = 0xFF) send exactly C=v, D=v,
\* B=base, B=base|0x7E, B=base in this order, set the six cache entries to
\* v | (v << 8), and leave dos_enabled unchanged.
C4_ResetSetAll ==
  (trace # <<>> /\ Last.name \in {"resetDOs", "setAllDOs"} /\ Ok(Last))
  => LET v    == IF Last.name = "resetDOs" THEN 0 ELSE 255
         base == Base(Last.before.dos_enabled)
     IN /\ Last.wire = <<WrC(v), WrD(v), WrB(base), WrB(base + 126), WrB(base)>>
        /\ \A g \in Groups : current_values[g] = v + 256 * v
        /\ dos_enabled = Last.before.dos_enabled

\* resetDOs while the DOs are enabled and some channel is on.
C4_Witness ==
  /\ trace # <<>>
  /\ Last.name = "resetDOs" /\ Ok(Last)
  /\ Last.before.dos_enabled
  /\ Last.before.current_values[1] # 0
  /\ current_values[1] = 0

\* C5: after initSerial completes, whatever the state before (open with any
\* cache and flag, or closed), the port is open, dos_enabled is True and the
\* six cache entries are 0.
C5_InitSerial ==
  (trace # <<>> /\ Last.name = "initSerial" /\ Ok(Last))
  => /\ is_open
     /\ dos_enabled
     /\ \A g \in Groups : current_values[g] = 0

\* initSerial on a closed port whose object holds a disabled flag and
\* channels that are on.
C5_Witness ==
  /\ trace # <<>>
  /\ Last.name = "initSerial" /\ Ok(Last)
  /\ ~Last.before.is_open
  /\ ~Last.before.dos_enabled
  /\ Last.before.current_values[6] # 0
  /\ is_open

\* C6: disableDOs sends the single message B=0x00, sets dos_enabled False and
\* leaves the six cache entries unchanged; enableDOs sends the single message
\* B=0x01, sets dos_enabled True and leaves them unchanged.
C6_EnableDisable ==
  (trace # <<>> /\ Last.name \in {"enableDOs", "disableDOs"} /\ Ok(Last))
  => LET on == Last.name = "enableDOs"
     IN /\ Last.wire = <<WrB(IF on THEN 1 ELSE 0)>>
        /\ dos_enabled = on
        /\ current_values = Last.before.current_values

\* disableDOs while channels are on.
C6_Witness ==
  /\ trace # <<>>
  /\ Last.name = "disableDOs" /\ Ok(Last)
  /\ Last.before.dos_enabled
  /\ current_values[1] # 0
  /\ ~dos_enabled

\* C7: disableDOs(); turnOn(S); enableDOs() with S in 1..96, from any state
\* with the port open, ends with dos_enabled True and every channel of S on
\* in the cache and on the connector; and after any enableDOs the connector
\* shows the cache, whatever was called while the DOs were disabled.
C7_PendingSurvivesDisable ==
  /\ (Len(trace) = 3 /\ Ok(Last) /\ OnSet(trace[2]) \subseteq AllDOs)
     => /\ dos_enabled
        /\ \A c \in OnSet(trace[2]) :
             /\ ChannelBit(current_values, c) = 1
             /\ Output(portB, latched, c) = 1
  /\ (trace # <<>> /\ Last.name = "enableDOs" /\ Ok(Last))
     => \A c \in AllDOs : Output(portB, latched, c) = ChannelBit(current_values, c)

\* disableDOs(); turnOn([10]); enableDOs() where channel 10 was off.
C7_Witness ==
  /\ Len(trace) = 3
  /\ Ok(Last)
  /\ OnSet(trace[2]) = {10}
  /\ ChannelBit(trace[2].before.current_values, 10) = 0
  /\ Output(portB, latched, 10) = 1

\* The messages closeSerial(True) sends on an open port.
ResetAndDisable(enabled) ==
  <<WrC(0), WrD(0), WrB(Base(enabled)), WrB(Base(enabled) + 126),
    WrB(Base(enabled)), WrB(0)>>

\* Whether a close call is to reset the DOs.
ResetFirst(r) == IF r.name = "closeSerial" THEN r.arg[1] ELSE reset_on_exit

\* C8: closeSerial / __exit__ / __del__ on a closed port, with or without
\* reset, send nothing, raise nothing and change neither dos_enabled nor the
\* cache; so in __exit__ then __del__, or the same closeSerial twice, the
\* reset-and-close messages are sent once, by the first call.
C8_CloseIdempotent ==
  /\ (trace # <<>> /\ IsClose(Last) /\ ~Last.before.is_open)
     => /\ Ok(Last)
        /\ Last.wire = <<>>
        /\ dos_enabled = Last.before.dos_enabled
        /\ current_values = Last.before.current_values
        /\ ~is_open
  /\ (Len(trace) = 2 /\ IsClose(trace[1]) /\ IsClose(trace[2]))
     => /\ ~trace[2].before.is_open
        /\ trace[2].wire = <<>>
        /\ trace[1].wire =
             IF trace[1].before.is_open /\ ResetFirst(trace[1])
             THEN ResetAndDisable(trace[1].before.dos_enabled)
             ELSE <<>>

\* __exit__ that resets and closes, then __del__.
C8_Witness ==
  /\ Len(trace) = 2
  /\ trace[1].name = "__exit__" /\ trace[2].name = "__del__"
  /\ Len(trace[1].wire) = 6
  /\ trace[2].wire = <<>>
  /\ ~alive

ValidGPB(a) == a[1] \in 1 .. 6 /\ a[2] \in {PORT_C, PORT_D} /\ a[3] \in 0 .. 7

\* C9: for every channel c in 1..96, _GPBToDO(*_DOToGPB(c)) is c, and for
\* every group in 1..6, port C or D and bit in 0..7,
\* _DOToGPB(_GPBToDO(group, port, bit)) is (group, port, bit).
C9_Inverses ==
  /\ (trace # <<>> /\ Last.name = "_DOToGPB" /\ Last.arg[1] \in AllDOs) => Ok(Last)
  /\ (trace # <<>> /\ Last.name = "_GPBToDO" /\ ValidGPB(Last.arg)) => Ok(Last)
  /\ (Len(trace) = 2 /\ trace[1].name = "_DOToGPB" /\ trace[2].name = "_GPBToDO"
        /\ trace[1].arg[1] \in AllDOs)
     => trace[2].ret = trace[1].arg
  /\ (Len(trace) = 2 /\ trace[1].name = "_GPBToDO" /\ trace[2].name = "_DOToGPB"
        /\ ValidGPB(trace[1].arg))
     => trace[2].ret = trace[1].arg

\* (6, D, 7) translated to channel 96 and back.
C9_Witness ==
  /\ Len(trace) = 2
  /\ trace[1].name = "_GPBToDO" /\ trace[1].arg = <<6, PORT_D, 7>>
  /\ trace[2].name = "_DOToGPB" /\ trace[2].arg = <<96>>
  /\ trace[2].ret = <<6, PORT_D, 7>>

\* C10: for every channel c in 1..96, _DOToGPB(c) returns group
\* floor((c-1)/16)+1, port C if floor(((c-1) mod 16)/8) is 0 and D otherwise,
\* and bit (c-1) mod 8, with 1 <= group <= 6 and 0 <= bit <= 7.
C10_DOToGPB ==
  (trace # <<>> /\ Last.name = "_DOToGPB" /\ Last.arg[1] \in AllDOs)
  => LET c == Last.arg[1]
     IN /\ Ok(Last)
        /\ Last.ret = <<((c - 1) \div 16) + 1,
                        IF ((c - 1) % 16) \div 8 = 0 THEN PORT_C ELSE PORT_D,
                        (c - 1) % 8>>
        /\ Last.ret[1] \in 1 .. 6
        /\ Last.ret[3] \in 0 .. 7

\* Channel 32 is bit 7 of Port D in group 2.
C10_Witness ==
  /\ trace # <<>>
  /\ Last.name = "_DOToGPB" /\ Last.arg = <<32>>
  /\ Last.ret = <<2, PORT_D, 7>>

\* C11: _GPBToDO(group, port, bit) raises when group is not in 1..6, port is
\* not PORT_C or PORT_D, or bit is not in 0..7 (so for group 0, group 7,
\* bit -1 and bit 8), and returns a channel only for arguments in that domain.
C11_GPBToDORange ==
  (trace # <<>> /\ Last.name = "_GPBToDO")
  => /\ ValidGPB(Last.arg) <=> Ok(Last)
     /\ ~Ok(Last) => Last.exc = "range"

\* The first byte of the message for each port and command, as tabulated:
\* B 0x41 0x42 0x43, C 0x44 0x45 0x46, D 0x47 0x48 0x4A.
CodeTable ==
  [port \in {PORT_B, PORT_C, PORT_D} |->
     IF port = PORT_B THEN <<65, 66, 67>>
     ELSE IF port = PORT_C THEN <<68, 69, 70>>
     ELSE <<71, 72, 74>>]

\* C12: the message _WriteByte sends for a port and a command is the one
\* message whose first byte is the table's, never 0x49, and whose second byte
\* is the value given (for Configure and Write); messages for two different
\* (port, command) pairs differ in their first byte.
C12_CommandBytes ==
  /\ \A i \in 1 .. Len(trace) :
       (trace[i].name = "_WriteByte" /\ Ok(trace[i]))
       => /\ Len(trace[i].wire) = 1
          /\ trace[i].wire[1][1] = CodeTable[trace[i].arg[1]][trace[i].arg[2] + 1]
          /\ trace[i].wire[1][1] # 73
          /\ trace[i].arg[2] # CMD_READ => trace[i].wire[1][2] = trace[i].arg[3]
  /\ (Len(trace) = 2 /\ trace[1].name = "_WriteByte" /\ trace[2].name = "_WriteByte"
        /\ Ok(trace[1]) /\ Ok(trace[2])
        /\ <<trace[1].arg[1], trace[1].arg[2]>> # <<trace[2].arg[1], trace[2].arg[2]>>)
     => trace[1].wire[1][1] # trace[2].wire[1][1]

\* Configure Port D, then Write 0xFF to Port D: 'H' and then 'J'.
C12_Witness ==
  /\ Len(trace) = 2
  /\ trace[1].name = "_WriteByte" /\ trace[1].arg = <<PORT_D, CMD_CONFIGURE, 0>>
  /\ trace[2].name = "_WriteByte" /\ trace[2].arg = <<PORT_D, CMD_WRITE, 255>>
  /\ trace[1].wire = <<<<72, 0>>>>
  /\ trace[2].wire = <<<<74, 255>>>>
  /\ portD = 255

\* C13: a setDOs / turnOn / turnOff given a channel outside 1..96, in either
\* argument and whatever the other channels, raises the invalid-DO exception
\* before any message is sent (the base write to Port B included) and leaves
\* the cache and dos_enabled unchanged.
C13_RangeBeforeWrite ==
  (trace # <<>> /\ IsSetCall(Last)
     /\ ~(OnSet(Last) \cup OffSet(Last) \subseteq AllDOs))
  => /\ Last.exc = "range"
     /\ Last.wire = <<>>
     /\ current_values = Last.before.current_values
     /\ dos_enabled = Last.before.dos_enabled

\* The methods that write to the card and neither open nor close the port.
IsWriteCall(r) ==
  r.name \in {"enableDOs", "disableDOs", "resetDOs", "setAllDOs",
              "setDOs", "turnOn", "turnOff"}

\* Whether the range check of setDOs meets a channel outside 1..96: one in a
\* collection, or an int other than 0.
InvalidSeen(r) ==
  /\ IsSetCall(r)
  /\ \E i \in 1 .. Len(r.arg) :
       r.arg[i] # IntArg(0) /\ ~(ChannelsOf(r.arg[i]) \subseteq AllDOs)

\* C14 as stated: on a closed port enableDOs, disableDOs, resetDOs, setAllDOs,
\* setDOs, turnOn and turnOff all raise the serial-closed exception, send
\* nothing and leave dos_enabled and the cache unchanged; only initSerial
\* opens the port again.
C14_ClosedPortStated ==
  /\ (trace # <<>> /\ ~Last.before.is_open /\ IsWriteCall(Last))
     => /\ Last.exc = "closed"
        /\ Last.wire = <<>>
        /\ dos_enabled = Last.before.dos_enabled
        /\ current_values = Last.before.current_values
  /\ (trace # <<>> /\ ~Last.before.is_open /\ Last.name # "initSerial") => ~is_open
  /\ (trace # <<>> /\ ~Last.before.is_open /\ Last.name = "initSerial")
     => Ok(Last) /\ is_open

\* C14, amended: on a closed port each of these methods raises, sends nothing
\* and leaves dos_enabled and the cache unchanged; the exception is the
\* serial-closed one, except that setDOs / turnOn / turnOff raise the
\* invalid-DO exception when their range check meets a channel outside 1..96;
\* only initSerial opens the port again.
C14_ClosedPort ==
  /\ (trace # <<>> /\ ~Last.before.is_open /\ IsWriteCall(Last))
     => /\ Last.exc = IF InvalidSeen(Last) THEN "range" ELSE "closed"
        /\ Last.wire = <<>>
        /\ dos_enabled = Last.before.dos_enabled
        /\ current_values = Last.before.current_values
  /\ (trace # <<>> /\ ~Last.before.is_open /\ Last.name # "initSerial") => ~is_open
  /\ (trace # <<>> /\ ~Last.before.is_open /\ Last.name = "initSerial")
     => Ok(Last) /\ is_open

\* setAllDOs on a closed port whose object holds an enabled flag and an
\* all-zero cache entry.
C14_Witness ==
  /\ trace # <<>>
  /\ Last.name = "setAllDOs"
  /\ ~Last.before.is_open
  /\ Last.before.dos_enabled
  /\ Last.exc = "closed"
  /\ current_values[1] = 0
  /\ ~is_open

\* The messages "Configure Port B / C / D with v".
CfB(v) == <<66, v>>
CfC(v) == <<69, v>>
CfD(v) == <<72, v>>

LatchBits(v) == {g \in Groups : Bit(v, g) = 1}

\* The groups a call set the bit of in a write to Port B.
LatchedIn(r) ==
  {g \in Groups : \E i \in 1 .. Len(r.wire) :
                    r.wire[i][1] = 67 /\ Bit(r.wire[i][2], g) = 1}

\* The six group values the call r asks for: the cached value of a group the
\* call names no channel of, the target value of the others.
NewValues(r) ==
  LET touched == TouchedGroups(r)
      New(g)  == IF g \in touched
                 THEN Target(r, g, r.before.current_values[g], 0)
                 ELSE r.before.current_values[g]
  IN <<New(1), New(2), New(3), New(4), New(5), New(6)>>

\* C16: a setDOs / turnOn / turnOff with channels in 1..96 that gets to write
\* sends first B=base (0x01 if enabled else 0x00), once, also when no group
\* changes; then, for each group g whose value changes, the three messages
\* C=newC, D=newD, B=base|(1<<g), next to one another and in this order, each
\* group once; the cache entry of g is updated after the write to B, so it
\* holds the new value exactly for the groups whose write to B was sent,
\* also when a later write raises. No write to B sets two of the bits 1..6.
C16_WriteOrder ==
  (trace # <<>> /\ IsSetCall(Last) /\ Last.exc \in {"none", "io"}
     /\ OnSet(Last) \cup OffSet(Last) \subseteq AllDOs)
  => LET w    == Last.wire
         base == Base(Last.before.dos_enabled)
         old  == Last.before.current_values
         new  == NewValues(Last)
         chg  == {g \in TouchedGroups(Last) : new[g] # old[g]}
         done == LatchedIn(Last)
     IN /\ Ok(Last) => /\ Len(w) = 1 + 3 * Cardinality(chg)
                       /\ done = chg
        /\ \A i \in 1 .. Len(w) :
             IF i = 1 THEN w[i] = WrB(base)
             ELSE IF i % 3 = 2 THEN w[i][1] = 70
             ELSE IF i % 3 = 0 THEN w[i][1] = 74
             ELSE \E g \in chg :
                    /\ w[i] = WrB(base + Pow2(g))
                    /\ w[i - 2] = WrC(new[g] % 256)
                    /\ w[i - 1] = WrD(new[g] \div 256)
                    /\ \A j \in 1 .. i - 1 : w[j] # w[i]
        /\ \A i \in 2 .. Len(w) : w[i] # WrB(base)
        /\ \A i \in 1 .. Len(w) :
             w[i][1] = 67 => Cardinality(LatchBits(w[i][2])) <= 1
        /\ \A g \in Groups :
             current_values[g] = IF g \in done THEN new[g] ELSE old[g]

\* A setDOs while the DOs are enabled that changes groups 1 and 6, each
\* with its own write to Port B.
C16_Witness ==
  /\ trace # <<>>
  /\ Last.name = "setDOs" /\ Ok(Last)
  /\ Last.before.dos_enabled
  /\ Len(Last.wire) = 7
  /\ {Last.wire[4], Last.wire[7]} = {WrB(3), WrB(65)}
  /\ LatchedIn(Last) = {1, 6}

\* The calls that may change the enable bit: initSerial, enableDOs,
\* disableDOs, and a close that resets the DOs.
ChangesEnable(r) ==
  \/ r.name \in {"initSerial", "enableDOs", "disableDOs"}
  \/ IsClose(r) /\ ResetFirst(r)

\* C17: in every state dos_enabled is bit 0 of the last value written to
\* Port B; every write to Port B by setDOs, turnOn, turnOff, resetDOs and
\* setAllDOs has bit 0 equal to dos_enabled as it was when the call began;
\* bit 7 of every write to Port B is 0; and a call other than initSerial,
\* enableDOs, disableDOs and a resetting close leaves dos_enabled as it was.
C17_EnableBit ==
  /\ dos_enabled <=> Bit(portB, 0) = 1
  /\ trace # <<>>
     => /\ \A i \in 1 .. Len(Last.wire) :
             Last.wire[i][1] = 67 => Bit(Last.wire[i][2], 7) = 0
        /\ (IsSetCall(Last) \/ Last.name \in {"resetDOs", "setAllDOs"})
           => \A i \in 1 .. Len(Last.wire) :
                Last.wire[i][1] = 67
                => Bit(Last.wire[i][2], 0) = Base(Last.before.dos_enabled)
        /\ ~ChangesEnable(Last) => dos_enabled = Last.before.dos_enabled

\* setAllDOs while the DOs are disabled: Port B gets 0x00, 0x7E, 0x00.
C17_Witness ==
  /\ trace # <<>>
  /\ Last.name = "setAllDOs" /\ Ok(Last)
  /\ ~Last.before.dos_enabled
  /\ Last.wire[4] = WrB(126)
  /\ ~dos_enabled
  /\ Bit(portB, 0) = 0

\* C18: closeSerial(reset_dos) on an open port (and __exit__ / __del__, which
\* pass reset_on_exit): with reset_dos True it sends the five messages of
\* resetDOs, then B=0x00, and closes the port, ending with dos_enabled False
\* and the six cache entries 0; with reset_dos False it sends nothing, closes
\* the port and leaves dos_enabled and the cache as they were.
C18_CloseOpen ==
  (trace # <<>> /\ IsClose(Last) /\ Last.before.is_open)
  => /\ Ok(Last)
     /\ ~is_open
     /\ IF ResetFirst(Last)
        THEN /\ Last.wire = ResetAndDisable(Last.before.dos_enabled)
             /\ ~dos_enabled
             /\ \A g \in Groups : current_values[g] = 0
             /\ \A g \in Groups : latched[g] = 0
             /\ portB = 0
        ELSE /\ Last.wire = <<>>
             /\ dos_enabled = Last.before.dos_enabled
             /\ current_values = Last.before.current_values

\* closeSerial(True) on an open port while the DOs are enabled and on.
C18_Witness ==
  /\ trace # <<>>
  /\ Last.name = "closeSerial" /\ Last.arg = <<TRUE>>
  /\ Last.before.is_open /\ Last.before.dos_enabled
  /\ Last.before.current_values[2] # 0
  /\ Len(Last.wire) = 6
  /\ ~is_open /\ ~dos_enabled
  /\ current_values[2] = 0

\* Whether w is the beginning of full and stops short of its end.
ProperPrefix(w, full) == Len(w) < Len(full) /\ w = SubSeq(full, 1, Len(w))

\* The messages of resetDOs (v = 0x00) and setAllDOs (v = 0xFF).
WriteAllSeq(v, enabled) ==
  <<WrC(v), WrD(v), WrB(Base(enabled)), WrB(Base(enabled) + 126), WrB(Base(enabled))>>

\* The messages of initSerial.
InitSeq == <<CfB(0), CfC(0), CfD(0), WrB(0), WrC(0), WrD(0), WrB(126), WrB(1)>>

\* C19: when serial.write raises in a call, the call stops there (what it
\* sent is the beginning of what it sends otherwise, and nothing more), the
\* exception reaches the caller and nothing is undone. In setDOs / turnOn /
\* turnOff the cache holds the new value exactly for the groups whose write
\* to Port B went out before, and the old value for the group being written
\* and for the groups not yet reached; in resetDOs / setAllDOs / initSerial
\* no cache entry changes.
C19_WriteFailure ==
  (trace # <<>> /\ Last.exc = "io")
  => LET w    == Last.wire
         old  == Last.before.current_values
         new  == NewValues(Last)
         chg  == {g \in TouchedGroups(Last) : new[g] # old[g]}
         done == LatchedIn(Last)
     IN /\ IsSetCall(Last)
           => IF OnSet(Last) \cup OffSet(Last) \subseteq AllDOs
              THEN /\ Len(w) < 1 + 3 * Cardinality(chg)
                   /\ done \subseteq chg
                   /\ Cardinality(done) = (IF w = <<>> THEN 0 ELSE (Len(w) - 1) \div 3)
                   /\ \A g \in Groups :
                        current_values[g] = IF g \in done THEN new[g] ELSE old[g]
                   /\ dos_enabled = Last.before.dos_enabled
              ELSE w = <<>> /\ current_values = old
        /\ Last.name \in {"resetDOs", "setAllDOs"}
           => /\ ProperPrefix(w, WriteAllSeq(IF Last.name = "resetDOs" THEN 0 ELSE 255,
                                             Last.before.dos_enabled))
              /\ current_values = old
              /\ dos_enabled = Last.before.dos_enabled
        /\ Last.name = "initSerial"
           => /\ ProperPrefix(w, InitSeq)
              /\ current_values = old
              /\ is_open
              /\ dos_enabled = (Last.before.dos_enabled /\ Len(w) < 4)
        /\ Last.name \in {"enableDOs", "disableDOs"}
           => /\ w = <<>>
              /\ dos_enabled = Last.before.dos_enabled
              /\ current_values = old
        /\ IsClose(Last)
           => /\ ProperPrefix(w, ResetAndDisable(Last.before.dos_enabled))
              /\ is_open

\* A setDOs that changes two groups, where serial.write raises on the write
\* to Port B of the second: one entry of the cache is new, the other old.
C19_Witness ==
  /\ trace # <<>>
  /\ Last.name = "setDOs" /\ Last.exc = "io"
  /\ Len(Last.wire) = 6
  /\ Cardinality(ChangedGroups(Last)) = 2
  /\ Cardinality(LatchedIn(Last)) = 1
  /\ \E g \in ChangedGroups(Last) : current_values[g] = Last.before.current_values[g]
  /\ \E g \in ChangedGroups(Last) : current_values[g] # Last.before.current_values[g]

\* The value written to Port B last before message i of w, or -1.
RECURSIVE LastBBefore(_, _)
LastBBefore(w, i) ==
  IF i <= 1 THEN -1
  ELSE IF w[i - 1][1] = 67 THEN w[i - 1][2]
  ELSE LastBBefore(w, i - 1)

\* C20: with a card whose group g takes the values of Ports C and D when bit
\* g of Port B goes from 0 to 1, after initSerial and after every call of a
\* run in which no write fails, the value each of the six groups holds is the
\* group's entry of the cache; within setDOs, turnOn, turnOff, resetDOs and
\* setAllDOs, a write to Port B that sets the bit of a group follows a write
\* to Port B in the same call that left this bit at 0.
C20_CacheIsLatched ==
  /\ \A g \in Groups : latched[g] = current_values[g]
  /\ (trace # <<>> /\ (IsSetCall(Last) \/ Last.name \in {"resetDOs", "setAllDOs"}))
     => \A i \in 1 .. Len(Last.wire) :
          Last.wire[i][1] = 67
          => \A g \in LatchBits(Last.wire[i][2]) :
               /\ LastBBefore(Last.wire, i) >= 0
               /\ Bit(LastBBefore(Last.wire, i), g) = 0

\* turnOn([3, 96]) from an all-zero card: groups 1 and 6 hold different
\* values, each the one cached.
C20_Witness ==
  /\ trace # <<>>
  /\ Last.name = "turnOn" /\ Ok(Last)
  /\ Len(Last.wire) = 7
  /\ latched[1] = 4
  /\ latched[6] = 32768
  /\ current_values[1] = 4
  /\ current_values[6] = 32768

====
